---------------------------- MODULE Spec2Model ----------------------------
(***************************************************************************)
(* A model of the log-ingestion core of ClaudeCodeManager                  *)
(* (src-tauri/src/claude_data.rs): the per-line decoder, the Session fold, *)
(* the session listing and project summary, the two caches                 *)
(* (messages_cache, file_timestamps) and the .claude containment check of  *)
(* read_claude_file / write_claude_file.                                   *)
(*                                                                         *)
(* Strings of the program are TLA+ strings; Option::None, a missing JSON   *)
(* key, JSON null and a JSON value that is not a string are the sentinel   *)
(* strings below.  Text whose characters matter (message content) is a     *)
(* sequence of one-character strings.  A DateTime is a positive integer,   *)
(* written in a log line as its decimal string.                            *)
(***************************************************************************)
EXTENDS Integers, Sequences, FiniteSets, TLC

VARIABLES
    fs,               \* the projects tree: log path -> file (exists, readable, mtime, lines)
    projects_exists,  \* whether <claude_dir>/projects exists
    now,              \* the wall clock (Utc::now and the mtime of a write)
    messages_cache,   \* ClaudeDataManager.messages_cache: session id -> message list
    file_timestamps,  \* ClaudeDataManager.file_timestamps: log path -> last seen mtime
    calls,            \* get_session_messages calls in flight: caller -> position
    ret,              \* the last completed operation and what it returned
    prev,             \* at a get_changed_sessions call or a watcher event: the operation completed before it
    req               \* the argument of the call under way: the path handed to
                      \* read_claude_file / write_claude_file, the content and
                      \* budget handed to truncate_content

vars == <<fs, projects_exists, now, messages_cache, file_timestamps, calls, ret, prev, req>>

---------------------------------------------------------------------------
(* Values *)

None   == "<none>"       \* Option::None of a string-valued option
Absent == "<absent>"     \* serde_json: Value::get(key) is None
JNull  == "<null>"       \* serde_json: Value::Null
JOther == "<nonstring>"  \* a JSON number, boolean, array or object where a string is read
NoTime == 0              \* Option<DateTime<Utc>>::None

AbsentText == <<Absent>>
NoneText   == <<None>>

SP  == " "
NL  == "\n"
CR  == "\r"
TAB == "\t"
CTL == "<bel>"           \* a control character that is not whitespace

Ok(v)  == [ok |-> TRUE,  val |-> v,    err |-> None]
Err(e) == [ok |-> FALSE, val |-> <<>>, err |-> e]

\* Error texts of Box<dyn Error>
ErrSessionFileNotFound == "Session file not found for ID"
ErrNoSuchDirectory     == "No such file or directory (os error 2)"
ErrPermissionDenied    == "Permission denied (os error 13)"
ErrInvalidData         == "stream did not contain valid UTF-8"
ErrNotInClaudeDir      == "File must be within a .claude directory"

---------------------------------------------------------------------------
(* Bounds *)

MaxLines   == 3    \* lines of a log file drawn freely
MaxClock   == 3    \* the clock stops advancing here
MaxTs      == 2    \* timestamps written in log lines are 1..MaxTs
MaxPathLen == 4    \* components of a path handed to read_claude_file
MaxText    == 4    \* characters of a content drawn freely, and the small budgets

---------------------------------------------------------------------------
(* Log lines.  kind: "invalid_utf8" (BufRead::lines yields Err), "blank",  *)
(* "malformed" (text that is not JSON), "scalar" (JSON that is not an      *)
(* object), "object".                                                      *)

NoMessage == [present |-> FALSE, content |-> [shape |-> "absent", text |-> <<>>, blocks |-> <<>>],
              stop_reason |-> Absent]

RawLine(k) ==
    [kind |-> k, type |-> Absent, uuid |-> Absent, parentUuid |-> Absent,
     timestamp |-> Absent, cwd |-> Absent, gitBranch |-> Absent,
     message |-> NoMessage, summary |-> AbsentText, leafUuid |-> Absent]

StrContent(t)  == [shape |-> "str", text |-> t, blocks |-> <<>>]
ArrContent(bs) == [shape |-> "arr", text |-> <<>>, blocks |-> bs]
TextBlock(t)   == [type |-> "text", text |-> t, id |-> Absent, name |-> AbsentText, input |-> Absent]
ToolBlock(n)   == [type |-> "tool_use", text |-> AbsentText, id |-> "tool-1", name |-> n, input |-> "{}"]

\* serde_json::from_str::<Value>(&line).is_ok()
from_str_ok(line) == line.kind \in {"scalar", "object"}

\* Value::get(key): None unless the value is an object holding the key
get(raw, key) == IF raw.kind = "object" THEN raw[key] ELSE Absent

\* Value::as_str
as_str(v) == IF v \in {Absent, JNull, JOther} THEN None ELSE v

\* raw.get("message").and_then(|m| m.get(key))
message_get(raw, key) ==
    IF raw.kind = "object" /\ raw.message.present THEN raw.message[key] ELSE Absent

\* message_content that reads an array of blocks as the text of its first block
message_content_first_text(raw) ==
    IF raw.kind = "object" /\ raw.message.present
    THEN (IF raw.message.content.shape = "arr" /\ raw.message.content.blocks # <<>>
          THEN StrContent(raw.message.content.blocks[1].text)
          ELSE raw.message.content)
    ELSE NoMessage.content

\* raw.get("message").and_then(|m| m.get("content"))
message_content(raw) ==
    IF raw.kind = "object" /\ raw.message.present
    THEN raw.message.content ELSE NoMessage.content

\* str::parse::<DateTime<Utc>>: the decimal strings of 1..MaxClock+MaxTs parse
ParseTimestamp(s) ==
    IF \E n \in 1..(MaxClock + MaxTs) : ToString(n) = s
    THEN CHOOSE n \in 1..(MaxClock + MaxTs) : ToString(n) = s
    ELSE NoTime

---------------------------------------------------------------------------
(* Preview truncator *)

PreviewBudget == 200   \* the budget extract_content_preview passes
WideLimit     == 100   \* budgets above this are replaced
AdjustedCap   == 50    \* by this cap

\* .replace('\n', " ").replace('\r', "").chars().filter(|c| !c.is_control() || c.is_whitespace())
FilterChars(s) ==
    LET replaced == [i \in 1..Len(s) |-> IF s[i] = NL THEN SP ELSE s[i]]
        kept(c)  == c \notin {CR, CTL}
    IN  SelectSeq(replaced, kept)

IsWhitespace(c) == c \in {SP, TAB, NL, CR}

RECURSIVE TrimStart(_)
TrimStart(s) == IF s # <<>> /\ IsWhitespace(Head(s)) THEN TrimStart(Tail(s)) ELSE s

RECURSIVE TrimEnd(_)
TrimEnd(s) ==
    IF s # <<>> /\ IsWhitespace(s[Len(s)]) THEN TrimEnd(SubSeq(s, 1, Len(s) - 1)) ELSE s

Trim(s) == TrimEnd(TrimStart(s))

Min(a, b) == IF a < b THEN a ELSE b

\* str::rfind(' '): the number of characters before the last space, or -1
RFindSpace(s) ==
    IF \E i \in 1..Len(s) : s[i] = SP
    THEN (CHOOSE i \in 1..Len(s) : s[i] = SP /\ \A j \in (i+1)..Len(s) : s[j] # SP) - 1
    ELSE -1

\* truncate_content that cuts a content as long as the cap
truncate_content_below_cap(content, max_chars) ==
    LET trimmed      == Trim(FilterChars(content))
        adjusted_max == IF max_chars > WideLimit THEN AdjustedCap ELSE Min(max_chars, AdjustedCap)
    IN  IF Len(trimmed) < adjusted_max THEN trimmed
        ELSE LET truncated  == SubSeq(trimmed, 1, adjusted_max)
                 last_space == RFindSpace(truncated)
             IN  IF last_space >= 0
                 THEN SubSeq(truncated, 1, last_space) \o <<".", ".", ".">>
                 ELSE truncated \o <<".", ".", ".">>

truncate_content(content, max_chars) ==
    LET trimmed      == Trim(FilterChars(content))
        adjusted_max == IF max_chars > WideLimit THEN AdjustedCap ELSE Min(max_chars, AdjustedCap)
    IN  IF Len(trimmed) <= adjusted_max THEN trimmed
        ELSE LET truncated  == SubSeq(trimmed, 1, adjusted_max)
                 last_space == RFindSpace(truncated)
             IN  IF last_space >= 0
                 THEN SubSeq(truncated, 1, last_space) \o <<".", ".", ".">>
                 ELSE truncated \o <<".", ".", ".">>

RECURSIVE JoinSpace(_)
\* Vec<String>::join(" ")
JoinSpace(parts) ==
    IF parts = <<>> THEN <<>>
    ELSE IF Len(parts) = 1 THEN parts[1]
    ELSE parts[1] \o <<SP>> \o JoinSpace(Tail(parts))

\* format!("[Using tool: {name}]") up to the name
UsingTool == <<"[", "U", "s", "i", "n", "g", SP, "t", "o", "o", "l", ":", SP>>

RECURSIVE PreviewParts(_)
\* the text_parts loop of extract_content_preview
PreviewParts(blocks) ==
    IF blocks = <<>> THEN <<>>
    ELSE LET b == Head(blocks) IN
         (IF as_str(b.type) = "text"
          THEN (IF b.text # AbsentText THEN <<b.text>> ELSE <<>>)
          ELSE IF as_str(b.type) = "tool_use"
          THEN (IF b.name # AbsentText THEN <<UsingTool \o b.name \o <<"]">>>> ELSE <<>>)
          ELSE <<>>)
         \o PreviewParts(Tail(blocks))

\* Option<String>: NoneText or the preview
extract_content_preview(message) ==
    LET msg_type == as_str(get(message, "type"))
        content  == message_content(message)
    IN  IF msg_type = "user"
        THEN (IF content.shape = "str" THEN truncate_content(content.text, PreviewBudget)
              ELSE NoneText)
        ELSE IF msg_type = "assistant"
        THEN (IF content.shape # "arr" THEN NoneText
              ELSE LET text_parts == PreviewParts(content.blocks) IN
                   IF text_parts # <<>>
                   THEN truncate_content(JoinSpace(text_parts), PreviewBudget)
                   ELSE NoneText)
        ELSE IF msg_type = "summary"
        THEN (IF get(message, "summary") # AbsentText
              THEN truncate_content(get(message, "summary"), PreviewBudget)
              ELSE NoneText)
        ELSE NoneText

---------------------------------------------------------------------------
(* Record decoder *)

\* Option<ContentBlock>: a block, or NoBlock for a dropped one
NoBlock == [variant |-> "none"]

parse_content_block(block) ==
    IF as_str(block.type) = "text"
    THEN [variant |-> "Text", text |-> IF block.text = AbsentText THEN <<>> ELSE block.text]
    ELSE IF as_str(block.type) = "tool_use"
    THEN [variant |-> "ToolUse",
          id    |-> IF as_str(block.id) = None THEN "" ELSE block.id,
          name  |-> IF block.name = AbsentText THEN <<>> ELSE block.name,
          input |-> IF block.input = Absent THEN JNull ELSE block.input]
    ELSE NoBlock

RECURSIVE parse_content_blocks(_)
\* blocks.iter().filter_map(|block| self.parse_content_block(block)).collect()
parse_content_blocks(blocks) ==
    IF blocks = <<>> THEN <<>>
    ELSE LET b == parse_content_block(Head(blocks)) IN
         (IF b = NoBlock THEN <<>> ELSE <<b>>) \o parse_content_blocks(Tail(blocks))

\* the processing_status match of parse_claude_message
ProcessingStatusOf(stop_reason) ==
    IF stop_reason = None THEN "Processing"
    ELSE IF stop_reason \in {"end_turn", "tool_use"} THEN "Completed"
    ELSE IF stop_reason \in {"max_tokens", "stop_sequence"} THEN "Stopped"
    ELSE "Error"

\* Option<ClaudeMessage>: a message, or NoMsg for Ok(None).  t is Utc::now().
NoMsg == [variant |-> "none"]

parse_claude_message(raw, session_id, t) ==
    LET uuid        == IF as_str(get(raw, "uuid")) = None THEN "" ELSE get(raw, "uuid")
        parent_uuid == as_str(get(raw, "parentUuid"))
        timestamp_str == IF as_str(get(raw, "timestamp")) = None THEN ""
                         ELSE get(raw, "timestamp")
        timestamp   == IF ParseTimestamp(timestamp_str) = NoTime THEN t
                       ELSE ParseTimestamp(timestamp_str)
        cwd         == IF as_str(get(raw, "cwd")) = None THEN "" ELSE get(raw, "cwd")
        git_branch  == as_str(get(raw, "gitBranch"))
        type        == as_str(get(raw, "type"))
        content     == message_content(raw)
    IN  IF type = "user"
        THEN [variant |-> "User", uuid |-> uuid, parent_uuid |-> parent_uuid,
              session_id |-> session_id, timestamp |-> timestamp,
              content |-> [role |-> "user",
                           content |-> IF content.shape = "str" THEN content.text ELSE <<>>],
              cwd |-> cwd, git_branch |-> git_branch,
              processing_status |-> "Completed"]
        ELSE IF type = "assistant"
        THEN LET stop_reason == as_str(message_get(raw, "stop_reason")) IN
             [variant |-> "Assistant", uuid |-> uuid, parent_uuid |-> parent_uuid,
              session_id |-> session_id, timestamp |-> timestamp,
              content |-> [role |-> "assistant",
                           content |-> IF content.shape = "arr"
                                       THEN parse_content_blocks(content.blocks) ELSE <<>>],
              cwd |-> cwd, git_branch |-> git_branch,
              processing_status |-> ProcessingStatusOf(stop_reason),
              stop_reason |-> stop_reason]
        ELSE IF type = "summary"
        THEN [variant |-> "Summary",
              summary   |-> IF get(raw, "summary") = AbsentText THEN <<>> ELSE get(raw, "summary"),
              leaf_uuid |-> IF as_str(get(raw, "leafUuid")) = None THEN ""
                            ELSE get(raw, "leafUuid")]
        ELSE NoMsg

RECURSIVE messages_loop_break(_, _, _, _)
\* messages_loop that stops reading at the first line it has no message for
messages_loop_break(lines, session_id, t, messages) ==
    IF lines = <<>> THEN Ok(messages)
    ELSE LET line == Head(lines) IN
         IF line.kind = "invalid_utf8" THEN Err(ErrInvalidData)
         ELSE IF from_str_ok(line) /\ parse_claude_message(line, session_id, t) # NoMsg
         THEN messages_loop_break(Tail(lines), session_id, t,
                                  Append(messages, parse_claude_message(line, session_id, t)))
         ELSE Ok(messages)

RECURSIVE messages_loop(_, _, _, _)
\* the `for line in reader.lines()` loop of parse_messages_file
messages_loop(lines, session_id, t, messages) ==
    IF lines = <<>> THEN Ok(messages)
    ELSE LET line == Head(lines) IN
         IF line.kind = "invalid_utf8" THEN Err(ErrInvalidData)
         ELSE IF from_str_ok(line)
         THEN LET message == parse_claude_message(line, session_id, t) IN
              messages_loop(Tail(lines), session_id, t,
                            IF message = NoMsg THEN messages ELSE Append(messages, message))
         ELSE messages_loop(Tail(lines), session_id, t, messages)

\* file is the file at the path found; t is Utc::now()
parse_messages_file(file, session_id, t) ==
    IF ~file.readable THEN Err(ErrPermissionDenied)
    ELSE messages_loop(file.lines, session_id, t, <<>>)

---------------------------------------------------------------------------
(* Session reconstructor *)

\* the mutable locals of parse_session_file before its loop
SessionFold0 ==
    [message_count |-> 0, first_timestamp |-> NoTime, git_branch |-> None,
     latest_content_preview |-> NoneText, latest_timestamp |-> NoTime,
     has_incomplete_sequence |-> FALSE, actual_project_path |-> None]

\* session_step that keeps the smallest timestamp as the first one
session_step_min_timestamp(acc, message) ==
    LET timestamp == ParseTimestamp(IF as_str(get(message, "timestamp")) = None THEN ""
                                    ELSE get(message, "timestamp"))
        newer     == timestamp # NoTime
                     /\ (acc.latest_timestamp = NoTime \/ timestamp > acc.latest_timestamp)
        branch    == as_str(get(message, "gitBranch"))
        cwd       == as_str(get(message, "cwd"))
        has_stop_reason == message_get(message, "stop_reason") # Absent
    IN  [message_count   |-> acc.message_count + 1,
         first_timestamp |->
             IF timestamp # NoTime
                /\ (acc.first_timestamp = NoTime \/ timestamp < acc.first_timestamp)
             THEN timestamp
             ELSE acc.first_timestamp,
         latest_timestamp |-> IF newer THEN timestamp ELSE acc.latest_timestamp,
         latest_content_preview |->
             IF newer THEN extract_content_preview(message) ELSE acc.latest_content_preview,
         git_branch |->
             IF acc.git_branch = None /\ branch # None /\ branch # "" THEN branch
             ELSE acc.git_branch,
         actual_project_path |->
             IF acc.actual_project_path = None /\ cwd # None /\ cwd # "" THEN cwd
             ELSE acc.actual_project_path,
         has_incomplete_sequence |->
             IF as_str(get(message, "type")) = "assistant" /\ ~has_stop_reason THEN TRUE
             ELSE acc.has_incomplete_sequence]

\* session_step that lets every record with a branch overwrite git_branch
session_step_last_branch(acc, message) ==
    LET timestamp == ParseTimestamp(IF as_str(get(message, "timestamp")) = None THEN ""
                                    ELSE get(message, "timestamp"))
        newer     == timestamp # NoTime
                     /\ (acc.latest_timestamp = NoTime \/ timestamp > acc.latest_timestamp)
        branch    == as_str(get(message, "gitBranch"))
        cwd       == as_str(get(message, "cwd"))
        has_stop_reason == message_get(message, "stop_reason") # Absent
    IN  [message_count   |-> acc.message_count + 1,
         first_timestamp |->
             IF timestamp # NoTime /\ acc.first_timestamp = NoTime THEN timestamp
             ELSE acc.first_timestamp,
         latest_timestamp |-> IF newer THEN timestamp ELSE acc.latest_timestamp,
         latest_content_preview |->
             IF newer THEN extract_content_preview(message) ELSE acc.latest_content_preview,
         git_branch |->
             IF branch # None /\ branch # "" THEN branch
             ELSE acc.git_branch,
         actual_project_path |->
             IF acc.actual_project_path = None /\ cwd # None /\ cwd # "" THEN cwd
             ELSE acc.actual_project_path,
         has_incomplete_sequence |->
             IF as_str(get(message, "type")) = "assistant" /\ ~has_stop_reason THEN TRUE
             ELSE acc.has_incomplete_sequence]

\* one iteration of the loop body for a line that parsed as JSON
session_step(acc, message) ==
    LET timestamp == ParseTimestamp(IF as_str(get(message, "timestamp")) = None THEN ""
                                    ELSE get(message, "timestamp"))
        newer     == timestamp # NoTime
                     /\ (acc.latest_timestamp = NoTime \/ timestamp > acc.latest_timestamp)
        branch    == as_str(get(message, "gitBranch"))
        cwd       == as_str(get(message, "cwd"))
        has_stop_reason == message_get(message, "stop_reason") # Absent
    IN  [message_count   |-> acc.message_count + 1,
         first_timestamp |->
             IF timestamp # NoTime /\ acc.first_timestamp = NoTime THEN timestamp
             ELSE acc.first_timestamp,
         latest_timestamp |-> IF newer THEN timestamp ELSE acc.latest_timestamp,
         latest_content_preview |->
             IF newer THEN extract_content_preview(message) ELSE acc.latest_content_preview,
         git_branch |->
             IF acc.git_branch = None /\ branch # None /\ branch # "" THEN branch
             ELSE acc.git_branch,
         actual_project_path |->
             IF acc.actual_project_path = None /\ cwd # None /\ cwd # "" THEN cwd
             ELSE acc.actual_project_path,
         has_incomplete_sequence |->
             IF as_str(get(message, "type")) = "assistant" /\ ~has_stop_reason THEN TRUE
             ELSE acc.has_incomplete_sequence]

RECURSIVE session_loop(_, _)
\* the `for line in reader.lines()` loop of parse_session_file
session_loop(lines, acc) ==
    IF lines = <<>> THEN Ok(acc)
    ELSE LET line == Head(lines) IN
         IF line.kind = "invalid_utf8" THEN Err(ErrInvalidData)
         ELSE IF from_str_ok(line) THEN session_loop(Tail(lines), session_step(acc, line))
         ELSE session_loop(Tail(lines), acc)

\* fs::metadata(path)?.modified()
get_file_modified_time(file) ==
    IF file.exists THEN Ok(file.mtime) ELSE Err(ErrNoSuchDirectory)

\* t is Utc::now(); ide_info is left out (no ide directory)
parse_session_file(file, session_id, project_path, t) ==
    LET file_modified_time == get_file_modified_time(file) IN
    IF ~file_modified_time.ok THEN Err(file_modified_time.err)
    ELSE IF ~file.readable THEN Err(ErrPermissionDenied)
    ELSE LET folded == session_loop(file.lines, SessionFold0) IN
         IF ~folded.ok THEN Err(folded.err)
         ELSE LET acc == folded.val IN
              Ok([session_id   |-> session_id,
                  project_path |-> IF acc.actual_project_path = None THEN project_path
                                   ELSE acc.actual_project_path,
                  timestamp    |-> IF acc.first_timestamp = NoTime THEN t
                                   ELSE acc.first_timestamp,
                  message_count |-> acc.message_count,
                  git_branch   |-> acc.git_branch,
                  latest_content_preview |-> acc.latest_content_preview,
                  is_processing |-> acc.has_incomplete_sequence,
                  file_modified_time |-> file_modified_time.val])

---------------------------------------------------------------------------
(* The projects tree.  A log path is [dir, stem, ext]; every dir named by   *)
(* a path of DOMAIN fs is a project directory.                             *)

NoFile == [exists |-> FALSE, readable |-> FALSE, mtime |-> NoTime, lines |-> <<>>]

LogFile(m, ls) == [exists |-> TRUE, readable |-> TRUE, mtime |-> m, lines |-> ls]

Existing(f) == {p \in DOMAIN f : f[p].exists}

DirsOf(f) == {p.dir : p \in DOMAIN f}

\* project directory names that start with '-' (the encoded ones)
EncodedNames == {"-home-u-app", "-srv-web"}

starts_with_hyphen(s) == s \in EncodedNames

\* file_path.extension() == Some("jsonl")
is_jsonl(p) == p.ext = "jsonl"

RECURSIVE Orderings(_)
\* the sequences that hold every element of S once
Orderings(S) ==
    IF S = {} THEN {<<>>}
    ELSE UNION {{<<x>> \o o : o \in Orderings(S \ {x})} : x \in S}

\* The orders in which the nested fs::read_dir loops can visit the files:
\* any order of the directories, any order inside each.
ReadDirOrders(f) ==
    {o \in Orderings(Existing(f)) :
        \A i, j, k \in 1..Len(o) : (i < j /\ j < k /\ o[i].dir = o[k].dir) => o[j].dir = o[i].dir}

---------------------------------------------------------------------------
(* Project resolver *)

ScanLines == 10    \* `for _ in 0..10`

RECURSIVE cwd_scan(_, _)
\* the loop of extract_cwd_from_session_file over at most n lines
cwd_scan(lines, n) ==
    IF n = 0 \/ lines = <<>> THEN Ok(None)
    ELSE LET line == Head(lines)
             cwd  == as_str(get(line, "cwd"))
         IN  IF line.kind = "invalid_utf8" THEN Err(ErrInvalidData)
             ELSE IF from_str_ok(line) /\ cwd # None /\ cwd # "" THEN Ok(cwd)
             ELSE cwd_scan(Tail(lines), n - 1)

\* extract_cwd_from_session_file that looks at the first line only
extract_cwd_first_line(file) ==
    IF ~file.readable THEN Err(ErrPermissionDenied)
    ELSE cwd_scan(file.lines, 1)

extract_cwd_from_session_file(file) ==
    IF ~file.readable THEN Err(ErrPermissionDenied)
    ELSE cwd_scan(file.lines, ScanLines)

RECURSIVE path_mapping_loop(_, _, _)
\* The first loop of get_all_sessions, and get_project_path_mapping: for each
\* encoded directory, the cwd of the first log file in which the scan finds one.
path_mapping_loop(order, f, map) ==
    IF order = <<>> THEN Ok(map)
    ELSE LET p == Head(order) IN
         IF starts_with_hyphen(p.dir) /\ is_jsonl(p) /\ map[p.dir] = None
         THEN LET actual_path == extract_cwd_from_session_file(f[p]) IN
              IF ~actual_path.ok THEN Err(actual_path.err)
              ELSE path_mapping_loop(Tail(order), f,
                                     [map EXCEPT ![p.dir] = actual_path.val])
         ELSE path_mapping_loop(Tail(order), f, map)

get_project_path_mapping(f, pexists, order) ==
    IF ~pexists THEN Ok([d \in DirsOf(f) |-> None])
    ELSE path_mapping_loop(order, f, [d \in DirsOf(f) |-> None])

---------------------------------------------------------------------------
(* Aggregator *)

RECURSIVE InsertDesc(_, _, _)
\* x placed after every element whose key is >= its own (a stable descending sort)
InsertDesc(sorted, x, key) ==
    IF sorted = <<>> THEN <<x>>
    ELSE IF Head(sorted)[key] >= x[key] THEN <<Head(sorted)>> \o InsertDesc(Tail(sorted), x, key)
    ELSE <<x>> \o sorted

\* a sort that leaves the elements in the order they came
SortDesc_unsorted(xs, key, done) == done \o xs

RECURSIVE SortDesc(_, _, _)
\* slice::sort_by(|a, b| b.key.cmp(&a.key)) of xs, appended to the sorted prefix done
SortDesc(xs, key, done) ==
    IF xs = <<>> THEN done
    ELSE SortDesc(Tail(xs), key, InsertDesc(done, Head(xs), key))

RECURSIVE sessions_loop_skip(_, _, _, _, _)
\* sessions_loop that leaves out a log file it cannot decode
sessions_loop_skip(order, f, map, t, sessions) ==
    IF order = <<>> THEN Ok(sessions)
    ELSE LET p == Head(order) IN
         IF is_jsonl(p)
         THEN LET effective_project_name ==
                      IF starts_with_hyphen(p.dir) /\ map[p.dir] # None THEN map[p.dir]
                      ELSE p.dir
                  session == parse_session_file(f[p], p.stem, effective_project_name, t)
              IN  IF ~session.ok THEN sessions_loop_skip(Tail(order), f, map, t, sessions)
                  ELSE sessions_loop_skip(Tail(order), f, map, t, Append(sessions, session.val))
         ELSE sessions_loop_skip(Tail(order), f, map, t, sessions)

RECURSIVE sessions_loop(_, _, _, _, _)
\* the second loop of get_all_sessions
sessions_loop(order, f, map, t, sessions) ==
    IF order = <<>> THEN Ok(sessions)
    ELSE LET p == Head(order) IN
         IF is_jsonl(p)
         THEN LET effective_project_name ==
                      IF starts_with_hyphen(p.dir) /\ map[p.dir] # None THEN map[p.dir]
                      ELSE p.dir
                  session == parse_session_file(f[p], p.stem, effective_project_name, t)
              IN  IF ~session.ok THEN Err(session.err)
                  ELSE sessions_loop(Tail(order), f, map, t, Append(sessions, session.val))
         ELSE sessions_loop(Tail(order), f, map, t, sessions)

\* order is the read_dir order of the call, t its Utc::now()
get_all_sessions(f, pexists, order, t) ==
    IF ~pexists THEN Ok(<<>>)
    ELSE LET project_path_map == path_mapping_loop(order, f, [d \in DirsOf(f) |-> None]) IN
         IF ~project_path_map.ok THEN Err(project_path_map.err)
         ELSE LET sessions == sessions_loop(order, f, project_path_map.val, t, <<>>) IN
              IF ~sessions.ok THEN Err(sessions.err)
              ELSE Ok(SortDesc(sessions.val, "timestamp", <<>>))

\* summary_add that keeps the last_activity of the first session of a project
summary_add_first_seen(project_map, normalized_path, session) ==
    IF \E i \in 1..Len(project_map) : project_map[i].project_path = normalized_path
    THEN [i \in 1..Len(project_map) |->
            IF project_map[i].project_path = normalized_path
            THEN [project_map[i] EXCEPT
                     !.session_count  = @ + 1,
                     !.total_messages = @ + session.message_count]
            ELSE project_map[i]]
    ELSE Append(project_map,
                [project_path   |-> normalized_path,
                 session_count  |-> 1,
                 last_activity  |-> session.file_modified_time,
                 total_messages |-> session.message_count,
                 active_todos   |-> 0])

\* project_map.entry(normalized_path).or_insert_with(..), then the three updates
summary_add(project_map, normalized_path, session) ==
    IF \E i \in 1..Len(project_map) : project_map[i].project_path = normalized_path
    THEN [i \in 1..Len(project_map) |->
            IF project_map[i].project_path = normalized_path
            THEN [project_map[i] EXCEPT
                     !.session_count  = @ + 1,
                     !.total_messages = @ + session.message_count,
                     !.last_activity  = IF session.file_modified_time > @
                                        THEN session.file_modified_time ELSE @]
            ELSE project_map[i]]
    ELSE Append(project_map,
                [project_path   |-> normalized_path,
                 session_count  |-> 1,
                 last_activity  |-> session.file_modified_time,
                 total_messages |-> session.message_count,
                 active_todos   |-> 0])

RECURSIVE summary_loop(_, _, _)
\* the `for session in sessions` loop of get_project_summary
summary_loop(sessions, path_mapping, project_map) ==
    IF sessions = <<>> THEN project_map
    ELSE LET session == Head(sessions)
             normalized_path ==
                 IF starts_with_hyphen(session.project_path)
                    /\ session.project_path \in DOMAIN path_mapping
                    /\ path_mapping[session.project_path] # None
                 THEN path_mapping[session.project_path]
                 ELSE session.project_path
         IN  summary_loop(Tail(sessions), path_mapping,
                          summary_add(project_map, normalized_path, session))

\* sessions and path_mapping are what get_all_sessions().await and
\* get_project_path_mapping().await returned; values is the order in which
\* HashMap::into_values yields the entries (an ordering of their indices)
get_project_summary(sessions, path_mapping, values) ==
    IF ~sessions.ok THEN Err(sessions.err)
    ELSE IF ~path_mapping.ok THEN Err(path_mapping.err)
    ELSE LET project_map == summary_loop(sessions.val, path_mapping.val, <<>>)
             projects    == [i \in 1..Len(project_map) |-> project_map[values[i]]]
         IN  Ok(SortDesc(projects, "last_activity", <<>>))

\* the number of entries project_map ends with (what `values` orders)
summary_size(sessions, path_mapping) ==
    IF sessions.ok /\ path_mapping.ok
    THEN Len(summary_loop(sessions.val, path_mapping.val, <<>>)) ELSE 0

---------------------------------------------------------------------------
(* Cache layer *)

RECURSIVE changed_loop_ge(_, _, _, _, _)
\* changed_loop that takes a file whose mtime equals the stored one as changed
changed_loop_ge(order, f, t, timestamps, changed_sessions) ==
    IF order = <<>> THEN [res |-> Ok(changed_sessions), timestamps |-> timestamps]
    ELSE LET p == Head(order) IN
         IF ~is_jsonl(p) THEN changed_loop_ge(Tail(order), f, t, timestamps, changed_sessions)
         ELSE LET current_time == get_file_modified_time(f[p]) IN
              IF ~current_time.ok THEN [res |-> Err(current_time.err), timestamps |-> timestamps]
              ELSE IF timestamps[p] = NoTime \/ current_time.val >= timestamps[p]
              THEN LET session == parse_session_file(f[p], p.stem, p.dir, t) IN
                   IF ~session.ok THEN [res |-> Err(session.err), timestamps |-> timestamps]
                   ELSE changed_loop_ge(Tail(order), f, t,
                                        [timestamps EXCEPT ![p] = current_time.val],
                                        Append(changed_sessions, session.val))
              ELSE changed_loop_ge(Tail(order), f, t, timestamps, changed_sessions)

RECURSIVE changed_loop_all(_, _, _, _, _)
\* changed_loop that returns every log file, whatever the stored time says
changed_loop_all(order, f, t, timestamps, changed_sessions) ==
    IF order = <<>> THEN [res |-> Ok(changed_sessions), timestamps |-> timestamps]
    ELSE LET p == Head(order) IN
         IF ~is_jsonl(p) THEN changed_loop_all(Tail(order), f, t, timestamps, changed_sessions)
         ELSE LET current_time == get_file_modified_time(f[p])
                  session      == parse_session_file(f[p], p.stem, p.dir, t)
              IN  IF ~current_time.ok
                  THEN [res |-> Err(current_time.err), timestamps |-> timestamps]
                  ELSE IF ~session.ok THEN [res |-> Err(session.err), timestamps |-> timestamps]
                  ELSE changed_loop_all(Tail(order), f, t,
                                        [timestamps EXCEPT ![p] = current_time.val],
                                        Append(changed_sessions, session.val))

RECURSIVE changed_loop_ne(_, _, _, _, _)
\* changed_loop that takes every file whose mtime differs from the stored one as changed
changed_loop_ne(order, f, t, timestamps, changed_sessions) ==
    IF order = <<>> THEN [res |-> Ok(changed_sessions), timestamps |-> timestamps]
    ELSE LET p == Head(order) IN
         IF ~is_jsonl(p) THEN changed_loop_ne(Tail(order), f, t, timestamps, changed_sessions)
         ELSE LET current_time == get_file_modified_time(f[p]) IN
              IF ~current_time.ok THEN [res |-> Err(current_time.err), timestamps |-> timestamps]
              ELSE IF timestamps[p] = NoTime \/ current_time.val # timestamps[p]
              THEN LET session == parse_session_file(f[p], p.stem, p.dir, t) IN
                   IF ~session.ok THEN [res |-> Err(session.err), timestamps |-> timestamps]
                   ELSE changed_loop_ne(Tail(order), f, t,
                                        [timestamps EXCEPT ![p] = current_time.val],
                                        Append(changed_sessions, session.val))
              ELSE changed_loop_ne(Tail(order), f, t, timestamps, changed_sessions)

RECURSIVE changed_loop(_, _, _, _, _)
\* The nested loops of get_changed_sessions.  The timestamps table is written
\* through the lock guard as the loop goes, so an early return keeps the
\* entries written so far.
changed_loop(order, f, t, timestamps, changed_sessions) ==
    IF order = <<>> THEN [res |-> Ok(changed_sessions), timestamps |-> timestamps]
    ELSE LET p == Head(order) IN
         IF ~is_jsonl(p) THEN changed_loop(Tail(order), f, t, timestamps, changed_sessions)
         ELSE LET current_time == get_file_modified_time(f[p]) IN
              IF ~current_time.ok THEN [res |-> Err(current_time.err), timestamps |-> timestamps]
              ELSE IF timestamps[p] = NoTime \/ current_time.val > timestamps[p]
              THEN LET session == parse_session_file(f[p], p.stem, p.dir, t) IN
                   IF ~session.ok THEN [res |-> Err(session.err), timestamps |-> timestamps]
                   ELSE changed_loop(Tail(order), f, t,
                                     [timestamps EXCEPT ![p] = current_time.val],
                                     Append(changed_sessions, session.val))
              ELSE changed_loop(Tail(order), f, t, timestamps, changed_sessions)

get_changed_sessions(f, pexists, order, t, timestamps) ==
    IF ~pexists THEN [res |-> Ok(<<>>), timestamps |-> timestamps]
    ELSE LET done == changed_loop(order, f, t, timestamps, <<>>) IN
         IF ~done.res.ok THEN done
         ELSE [res |-> Ok(SortDesc(done.res.val, "timestamp", <<>>)),
               timestamps |-> done.timestamps]

\* the paths find_session_file can return: <dir>/<session_id>.jsonl that exist
\* (the first in read_dir order, so any of them)
session_file_candidates(f, session_id) ==
    {p \in Existing(f) : p.stem = session_id /\ is_jsonl(p)}

---------------------------------------------------------------------------
(* Containment check of read_claude_file / write_claude_file.  A path is   *)
(* the sequence of its components; Path::parent drops the last one and is  *)
(* None once none is left; Path::file_name is the last one unless it is    *)
(* "..".                                                                   *)

file_name(path) == IF path = <<>> \/ path[Len(path)] = ".." THEN None ELSE path[Len(path)]

RECURSIVE is_in_claude_dir(_)
\* the `while let Some(parent) = current.parent()` loop, started at the path itself
is_in_claude_dir(current) ==
    IF current = <<>> THEN FALSE
    ELSE IF file_name(current) = ".claude" THEN TRUE
    ELSE is_in_claude_dir(SubSeq(current, 1, Len(current) - 1))

\* what the call does to the filesystem: nothing when the check rejects
read_claude_file(path) ==
    IF ~is_in_claude_dir(path)
    THEN [res |-> Err(ErrNotInClaudeDir), effects |-> {}]
    ELSE [res |-> Ok(<<>>), effects |-> {<<"read", path>>}]

write_claude_file(path) ==
    IF ~is_in_claude_dir(path)
    THEN [res |-> Err(ErrNotInClaudeDir), effects |-> {}]
    ELSE [res |-> Ok(<<>>),
          effects |-> (IF path # <<>>
                       THEN {<<"create_dir_all", SubSeq(path, 1, Len(path) - 1)>>} ELSE {})
                      \cup {<<"write", path>>}]

---------------------------------------------------------------------------
(* Operations *)

Callers == {1, 2}

IdleCall == [pc |-> "idle", id |-> None, messages |-> <<>>]

RetNone == [op |-> "none"]

\* The clock advances.
Tick ==
    /\ now < MaxClock
    /\ now' = now + 1
    /\ UNCHANGED <<fs, projects_exists, messages_cache, file_timestamps, calls, ret, prev, req>>

\* The assistant process creates or rewrites the log at path p.
WriteLog(p, lines) ==
    /\ fs' = [fs EXCEPT ![p] = LogFile(now, lines)]
    /\ projects_exists' = TRUE
    /\ ret' = [op |-> "write"]
    /\ UNCHANGED <<now, messages_cache, file_timestamps, calls, prev, req>>

\* The log at path p is replaced by a copy that keeps a modification time m
\* of its own (a restored or copied file), earlier or later than the one it had.
RestoreLog(p, lines, m) ==
    /\ fs' = [fs EXCEPT ![p] = LogFile(m, lines)]
    /\ projects_exists' = TRUE
    /\ ret' = [op |-> "restore"]
    /\ UNCHANGED <<now, messages_cache, file_timestamps, calls, prev, req>>

\* The permission to read the file at path p is given or taken away.
Chmod(p, r) ==
    /\ fs[p].exists
    /\ fs' = [fs EXCEPT ![p].readable = r]
    /\ ret' = [op |-> "chmod"]
    /\ UNCHANGED <<projects_exists, now, messages_cache, file_timestamps, calls, prev, req>>

\* The log at path p is removed.
DeleteLog(p) ==
    /\ fs[p].exists
    /\ fs' = [fs EXCEPT ![p] = NoFile]
    /\ ret' = [op |-> "delete"]
    /\ UNCHANGED <<projects_exists, now, messages_cache, file_timestamps, calls, prev, req>>

\* get_all_sessions
ListSessions ==
    /\ \E order \in ReadDirOrders(fs) :
          ret' = [op |-> "list_sessions",
                  res |-> get_all_sessions(fs, projects_exists, order, now)]
    /\ UNCHANGED <<fs, projects_exists, now, messages_cache, file_timestamps, calls, prev, req>>

\* get_project_summary
ProjectSummary ==
    /\ \E order, order2 \in ReadDirOrders(fs) :
       \E sessions \in {get_all_sessions(fs, projects_exists, order, now)} :
       \E path_mapping \in {get_project_path_mapping(fs, projects_exists, order2)} :
       \E values \in Orderings(1..summary_size(sessions, path_mapping)) :
          ret' = [op |-> "project_summary",
                  sessions |-> sessions,
                  res |-> get_project_summary(sessions, path_mapping, values)]
    /\ UNCHANGED <<fs, projects_exists, now, messages_cache, file_timestamps, calls, prev, req>>

\* get_changed_sessions, under the write lock of file_timestamps
ChangedSessions ==
    /\ \E order \in ReadDirOrders(fs) :
          LET done == get_changed_sessions(fs, projects_exists, order, now, file_timestamps) IN
          /\ file_timestamps' = done.timestamps
          /\ ret' = [op |-> "changed_sessions", res |-> done.res, before |-> file_timestamps]
    /\ prev' = [op |-> ret.op, ok |-> ret.op = "changed_sessions" /\ ret.res.ok]
    /\ UNCHANGED <<fs, projects_exists, now, messages_cache, calls, req>>

\* get_session_messages, first block: the cache lookup under the read lock
SmBegin(c, session_id) ==
    /\ calls[c].pc = "idle"
    /\ IF session_id \in DOMAIN messages_cache
       THEN /\ ret' = [op |-> "session_messages", caller |-> c, id |-> session_id,
                       hit |-> TRUE, res |-> Ok(messages_cache[session_id]),
                       cache_before |-> messages_cache]
            /\ UNCHANGED calls
       ELSE /\ calls' = [calls EXCEPT ![c] = [pc |-> "find", id |-> session_id, messages |-> <<>>]]
            /\ UNCHANGED ret
    /\ UNCHANGED <<fs, projects_exists, now, messages_cache, file_timestamps, prev, req>>

\* HashMap::insert on messages_cache
cache_insert(cache, session_id, messages) ==
    [k \in DOMAIN cache \cup {session_id} |-> IF k = session_id THEN messages ELSE cache[k]]

\* SmFind that remembers a session it did not find as one without messages
SmFind_caches_failure(c) ==
    /\ calls[c].pc = "find"
    /\ LET session_id == calls[c].id
           failed(e)  == /\ ret' = [op |-> "session_messages", id |-> session_id,
                                    hit |-> FALSE, res |-> Err(e)]
                         /\ calls' = [calls EXCEPT ![c] = IdleCall]
                         /\ messages_cache' = cache_insert(messages_cache, session_id, <<>>)
       IN  IF ~projects_exists THEN failed(ErrNoSuchDirectory)
           ELSE IF session_file_candidates(fs, session_id) = {}
           THEN failed(ErrSessionFileNotFound)
           ELSE \E session_file \in session_file_candidates(fs, session_id) :
                   LET messages == parse_messages_file(fs[session_file], session_id, now) IN
                   IF ~messages.ok THEN failed(messages.err)
                   ELSE /\ calls' = [calls EXCEPT ![c] = [pc |-> "store", id |-> session_id,
                                                          messages |-> messages.val]]
                        /\ UNCHANGED <<ret, messages_cache>>
    /\ UNCHANGED <<fs, projects_exists, now, file_timestamps, prev, req>>

\* get_session_messages: find_session_file, then parse_messages_file
SmFind(c) ==
    /\ calls[c].pc = "find"
    /\ LET session_id == calls[c].id
           failed(e)  == /\ ret' = [op |-> "session_messages", id |-> session_id,
                                    hit |-> FALSE, res |-> Err(e)]
                         /\ calls' = [calls EXCEPT ![c] = IdleCall]
                         /\ UNCHANGED messages_cache
       IN  IF ~projects_exists THEN failed(ErrNoSuchDirectory)
           ELSE IF session_file_candidates(fs, session_id) = {}
           THEN failed(ErrSessionFileNotFound)
           ELSE \E session_file \in session_file_candidates(fs, session_id) :
                   LET messages == parse_messages_file(fs[session_file], session_id, now) IN
                   IF ~messages.ok THEN failed(messages.err)
                   ELSE /\ calls' = [calls EXCEPT ![c] = [pc |-> "store", id |-> session_id,
                                                          messages |-> messages.val]]
                        /\ UNCHANGED <<ret, messages_cache>>
    /\ UNCHANGED <<fs, projects_exists, now, file_timestamps, prev, req>>

\* get_session_messages, last block: the insert under the write lock, and the return
SmStore(c) ==
    /\ calls[c].pc = "store"
    /\ messages_cache' = cache_insert(messages_cache, calls[c].id, calls[c].messages)
    /\ ret' = [op |-> "session_messages", id |-> calls[c].id,
               hit |-> FALSE, res |-> Ok(calls[c].messages)]
    /\ calls' = [calls EXCEPT ![c] = IdleCall]
    /\ UNCHANGED <<fs, projects_exists, now, file_timestamps, prev, req>>

ReadFile ==
    /\ ret' = [op |-> "read_file", path |-> req, out |-> read_claude_file(req)]
    /\ UNCHANGED <<fs, projects_exists, now, messages_cache, file_timestamps, calls, prev, req>>

WriteFile ==
    /\ ret' = [op |-> "write_file", path |-> req, out |-> write_claude_file(req)]
    /\ UNCHANGED <<fs, projects_exists, now, messages_cache, file_timestamps, calls, prev, req>>

---------------------------------------------------------------------------
(* Inputs *)

Obj == RawLine("object")

UserMessage(t)  == [present |-> TRUE, content |-> StrContent(t), stop_reason |-> Absent]

AssistantMessage(stop) ==
    [present |-> TRUE, content |-> ArrContent(<<TextBlock(<<"o", "k">>)>>), stop_reason |-> stop]

\* The lines a decoded file is made of; the uuid is given by the position.
\* Lines of every kind and every type:
KindLines ==
    << RawLine("invalid_utf8"), RawLine("blank"), RawLine("malformed"), RawLine("scalar"),
       [Obj EXCEPT !.type = "user", !.timestamp = "1", !.cwd = "/work/app",
                   !.message = UserMessage(<<"h", "i">>)],
       [Obj EXCEPT !.type = "assistant", !.message = AssistantMessage("end_turn")],
       [Obj EXCEPT !.type = "summary", !.summary = <<"s">>],
       [Obj EXCEPT !.type = "system", !.timestamp = "1"],
       Obj >>

\* Assistant records with every shape of stop_reason, among other records:
StopLines ==
    << RawLine("blank"),
       [Obj EXCEPT !.type = "user", !.timestamp = "1", !.message = UserMessage(<<"h", "i">>)],
       [Obj EXCEPT !.type = "assistant", !.timestamp = "2"],
       [Obj EXCEPT !.type = "assistant", !.message = AssistantMessage(Absent)],
       [Obj EXCEPT !.type = "assistant", !.message = AssistantMessage(JNull)],
       [Obj EXCEPT !.type = "assistant", !.message = AssistantMessage("end_turn")],
       [Obj EXCEPT !.type = "assistant", !.message = AssistantMessage("max_tokens")] >>

\* line i of a file carries uuid (and leafUuid) i
Numbered(lines) ==
    [i \in 1..Len(lines) |->
        IF lines[i].kind = "object"
        THEN [lines[i] EXCEPT !.uuid = ToString(i), !.leafUuid = ToString(i)]
        ELSE lines[i]]

DecodePath == [dir |-> "-home-u-app", stem |-> "s1", ext |-> "jsonl"]

InitCommon ==
    /\ now = 1
    /\ messages_cache = <<>>
    /\ calls = [c \in Callers |-> IdleCall]
    /\ ret = RetNone
    /\ prev = RetNone
    /\ req = <<>>

\* One log file of up to MaxLines lines.
InitDecode ==
    /\ \E k \in 0..MaxLines :
          \/ \E pick \in [1..k -> 1..Len(KindLines)] :
                fs = [p \in {DecodePath} |->
                         LogFile(1, Numbered([i \in 1..k |-> KindLines[pick[i]]]))]
          \/ \E pick \in [1..k -> 1..Len(StopLines)] :
                fs = [p \in {DecodePath} |->
                         LogFile(1, Numbered([i \in 1..k |-> StopLines[pick[i]]]))]
    /\ projects_exists = TRUE
    /\ file_timestamps = [p \in {DecodePath} |-> NoTime]
    /\ InitCommon

NextDecode ==
    \/ SmBegin(1, "s1")
    \/ SmFind(1)
    \/ SmStore(1)
    \/ ListSessions

SpecDecode == InitDecode /\ [][NextDecode]_vars

---------------------------------------------------------------------------
(* The incremental poll: log files are written while get_changed_sessions  *)
(* is called again and again.                                              *)

PollLogs == { [dir |-> "-home-u-app", stem |-> "s1", ext |-> "jsonl"],
              [dir |-> "scratch",     stem |-> "s2", ext |-> "jsonl"] }

NotesPath == [dir |-> "scratch", stem |-> "notes", ext |-> "txt"]

GoodLog == Numbered(<< [Obj EXCEPT !.type = "user", !.timestamp = "1",
                                   !.message = UserMessage(<<"h", "i">>)] >>)

\* a log whose second line is not valid UTF-8
BrokenLog == Numbered(<< [Obj EXCEPT !.type = "user", !.timestamp = "2",
                                     !.message = UserMessage(<<"h", "i">>)],
                         RawLine("invalid_utf8") >>)

PollContents == {GoodLog, BrokenLog}

InitPoll ==
    /\ \/ /\ projects_exists = FALSE
          /\ fs = [p \in PollLogs \cup {NotesPath} |-> NoFile]
       \/ /\ projects_exists = TRUE
          /\ fs = [p \in PollLogs \cup {NotesPath} |->
                      IF p = NotesPath THEN LogFile(1, <<RawLine("malformed")>>) ELSE NoFile]
    /\ file_timestamps = [p \in PollLogs \cup {NotesPath} |-> NoTime]
    /\ InitCommon

NextPoll ==
    \/ Tick
    \/ \E p \in PollLogs, lines \in PollContents : WriteLog(p, lines)
    \/ ChangedSessions

SpecPoll == InitPoll /\ [][NextPoll]_vars

---------------------------------------------------------------------------
(* Claims about the decoder and the Session fold (SpecDecode) *)

DecodedLines == fs[DecodePath].lines

\* the lines a message is due for
IsTyped(line) == line.kind = "object" /\ line.type \in {"user", "assistant", "summary"}

VariantOfType(type) ==
    IF type = "user" THEN "User" ELSE IF type = "assistant" THEN "Assistant" ELSE "Summary"

TypedIndices(lines) == {i \in 1..Len(lines) : IsTyped(lines[i])}

\* the k-th smallest element of a set of numbers
Nth(S, k) == CHOOSE i \in S : Cardinality({j \in S : j < i}) = k - 1

MessageId(m) == IF m.variant = "Summary" THEN m.leaf_uuid ELSE m.uuid

\* C1: a get_session_messages call that returns holds, in file order, exactly one
\* message per line that is JSON with type user, assistant or summary, of the
\* matching variant, and nothing for any other line, wherever skipped lines lie.
C1_OneMessagePerTypedLine ==
    (ret.op = "session_messages" /\ ret.res.ok) =>
        LET idx == TypedIndices(DecodedLines) IN
        /\ Len(ret.res.val) = Cardinality(idx)
        /\ \A k \in 1..Len(ret.res.val) :
              /\ ret.res.val[k].variant = VariantOfType(DecodedLines[Nth(idx, k)].type)
              /\ MessageId(ret.res.val[k]) = ToString(Nth(idx, k))

\* a returned list of two messages whose lines have a skipped line between them
C1_Witness ==
    /\ ret.op = "session_messages" /\ ret.res.ok
    /\ Len(ret.res.val) = 2
    /\ Len(DecodedLines) = 3
    /\ ~IsTyped(DecodedLines[2])
    /\ ret.res.val[2].variant = "Assistant"

JsonIndices(lines) == {i \in 1..Len(lines) : lines[i].kind \in {"scalar", "object"}}

\* C2: whatever one line holds, get_session_messages and the Session fold of
\* get_all_sessions succeed and ingest every other line of the file.
C2_NoLineAbortsIngestion ==
    /\ ret.op = "session_messages" =>
          (ret.res.ok /\ Len(ret.res.val) = Cardinality(TypedIndices(DecodedLines)))
    /\ ret.op = "list_sessions" =>
          /\ ret.res.ok
          /\ Len(ret.res.val) = 1
          /\ ret.res.val[1].message_count = Cardinality(JsonIndices(DecodedLines))

\* an assistant record whose nested message has stop_reason missing or null
IsOpenAssistant(line) ==
    /\ line.kind = "object" /\ line.type = "assistant"
    /\ (~line.message.present \/ line.message.stop_reason \in {Absent, JNull})

\* C3: the Session of a file has is_processing exactly when the file holds an
\* assistant record whose stop_reason is missing or JSON null.
C3_ProcessingIffOpenAssistant ==
    (ret.op = "list_sessions" /\ ret.res.ok) =>
        \A k \in 1..Len(ret.res.val) :
            ret.res.val[k].is_processing
                <=> (\E i \in 1..Len(DecodedLines) : IsOpenAssistant(DecodedLines[i]))

---------------------------------------------------------------------------
(* Claims about the incremental poll (SpecPoll) *)

\* the log files a get_changed_sessions call has to report, given the table it started with
ChangedSince(before) ==
    {p \in Existing(fs) : is_jsonl(p) /\ (before[p] = NoTime \/ fs[p].mtime > before[p])}

C5_ReturnsExactlyTheChanged ==
    (ret.op = "changed_sessions" /\ ret.res.ok) =>
        LET changed == ChangedSince(ret.before) IN
        /\ Len(ret.res.val) = Cardinality(changed)
        /\ \A p \in changed :
              /\ \E k \in 1..Len(ret.res.val) :
                    /\ ret.res.val[k].session_id = p.stem
                    /\ ret.res.val[k].file_modified_time = fs[p].mtime
              /\ file_timestamps[p] = fs[p].mtime
        /\ \A k \in 1..Len(ret.res.val) :
              \E p \in changed : ret.res.val[k].session_id = p.stem

\* a poll that returns a rewritten file and leaves out an unchanged one
C5_Witness ==
    /\ ret.op = "changed_sessions" /\ ret.res.ok
    /\ Len(ret.res.val) = 1
    /\ \E p, q \in PollLogs :
          /\ fs[p].exists /\ ret.before[p] # NoTime /\ fs[p].mtime > ret.before[p]
          /\ fs[q].exists /\ ret.before[q] = fs[q].mtime

---------------------------------------------------------------------------
(* The message cache: get_session_messages calls of two callers while log  *)
(* files are written and removed.                                          *)

CacheLogs == { [dir |-> "-home-u-app", stem |-> "s1", ext |-> "jsonl"],
               [dir |-> "scratch",     stem |-> "s1", ext |-> "jsonl"],
               [dir |-> "scratch",     stem |-> "s2", ext |-> "jsonl"] }

SessionIds == {"s1", "s2", "nonexistent-session"}

Init ==
    /\ \/ /\ projects_exists = FALSE
          /\ fs = [p \in CacheLogs |-> NoFile]
       \/ /\ projects_exists = TRUE
          /\ \E p \in CacheLogs : fs = [q \in CacheLogs |-> IF q = p THEN LogFile(1, GoodLog) ELSE NoFile]
    /\ file_timestamps = [p \in CacheLogs |-> NoTime]
    /\ InitCommon

Next ==
    \/ \E p \in CacheLogs, lines \in PollContents : WriteLog(p, lines)
    \/ \E p \in CacheLogs : DeleteLog(p)
    \/ \E c \in Callers, session_id \in SessionIds : SmBegin(c, session_id)
    \/ \E c \in Callers : SmFind(c)
    \/ \E c \in Callers : SmStore(c)

Spec == Init /\ [][Next]_vars

NotFoundErrors == {ErrSessionFileNotFound, ErrNoSuchDirectory}

\* C6: a get_session_messages call that missed the cache and reaches the file
\* search when no project directory holds <id>.jsonl fails with a not-found
\* error, and its failing step leaves messages_cache as it was.
C6_MissingSessionFailsCacheKept ==
    [][\A c \in Callers :
          (/\ calls[c].pc = "find"
           /\ calls'[c] # calls[c]
           /\ session_file_candidates(fs, calls[c].id) = {})
          => /\ calls'[c].pc = "idle"
             /\ ret'.op = "session_messages" /\ ret'.id = calls[c].id
             /\ ~ret'.res.ok /\ ret'.res.err \in NotFoundErrors
             /\ messages_cache' = messages_cache]_vars

\* a not-found failure for an uncached id while another session stays cached
C6_Witness ==
    /\ ret.op = "session_messages" /\ ~ret.hit /\ ~ret.res.ok
    /\ ret.res.err = ErrSessionFileNotFound
    /\ ret.id \notin DOMAIN messages_cache
    /\ messages_cache # <<>>

---------------------------------------------------------------------------
(* The containment check on every path of up to MaxPathLen components *)

PathComponents == <<".claude", "notes", "..">>

InitPath ==
    /\ \E k \in 0..MaxPathLen : \E pick \in [1..k -> 1..Len(PathComponents)] :
          req = [i \in 1..k |-> PathComponents[pick[i]]]
    /\ projects_exists = TRUE
    /\ fs = [p \in {DecodePath} |-> NoFile]
    /\ file_timestamps = [p \in {DecodePath} |-> NoTime]
    /\ now = 1
    /\ messages_cache = <<>>
    /\ calls = [c \in Callers |-> IdleCall]
    /\ ret = RetNone
    /\ prev = RetNone

NextPath == ReadFile \/ WriteFile

SpecPath == InitPath /\ [][NextPath]_vars

\* a component strictly above the final one is named .claude
HasClaudeAncestor(path) == \E i \in 1..(Len(path) - 1) : path[i] = ".claude"

\* C7: read_claude_file and write_claude_file decide alike, and reach the
\* filesystem exactly for the paths with an ancestor component named .claude;
\* for every other path they fail with the access-denied error.
C7_OnlyUnderClaudeAncestor ==
    (ret.op \in {"read_file", "write_file"}) =>
        /\ (ret.out.effects # {}) <=> HasClaudeAncestor(ret.path)
        /\ ~HasClaudeAncestor(ret.path) =>
              (~ret.out.res.ok /\ ret.out.res.err = ErrNotInClaudeDir)
        /\ read_claude_file(ret.path).res.ok <=> write_claude_file(ret.path).res.ok

---------------------------------------------------------------------------
(* The listing and the project summary over a fixed projects tree          *)
(* (SpecList): two project directories, one with an encoded name.          *)

ListA1 == [dir |-> "-home-u-app", stem |-> "a1", ext |-> "jsonl"]
ListA2 == [dir |-> "-home-u-app", stem |-> "a2", ext |-> "jsonl"]
ListB1 == [dir |-> "scratch",     stem |-> "b1", ext |-> "jsonl"]
ListB2 == [dir |-> "scratch",     stem |-> "b2", ext |-> "jsonl"]
ListNotes == [dir |-> "-home-u-app", stem |-> "notes", ext |-> "txt"]

ListPaths == {ListA1, ListA2, ListB1, ListB2, ListNotes}

\* a file in an encoded directory that is no log, with a cwd in its first line
NotesFile == LogFile(1, <<[Obj EXCEPT !.cwd = "/work/notes"]>>)

\* pad JSON lines that are no records, then one user record
ListLog(pad, cwd, ts) ==
    Numbered([i \in 1..pad |-> RawLine("scalar")]
             \o << [Obj EXCEPT !.type = "user", !.timestamp = ts, !.cwd = cwd,
                               !.message = UserMessage(<<"h", "i">>)] >>)

\* logs that differ in whether and where a cwd is recorded
CwdLogs ==
    {LogFile(1, ListLog(0, Absent, "1"))}
    \cup {LogFile(1, ListLog(pad, cwd, "1")) :
              pad \in {0, ScanLines - 1, ScanLines}, cwd \in {"/work/app", "/work/web"}}

PlainDirLogs ==
    {LogFile(1, ListLog(0, cwd, "1")) : cwd \in {Absent, "/work/app", "/work/web"}}

ListMtimes == {1, 2}

\* logs that differ in their first timestamp and in their modification time
TimedLogs(cwds) ==
    {LogFile(m, ListLog(0, cwd, ToString(ts))) :
        m \in ListMtimes, cwd \in cwds, ts \in 1..MaxTs}

ListTree(a1, a2, b1, b2, notes) ==
    [p \in ListPaths |->
        IF p = ListA1 THEN a1 ELSE IF p = ListA2 THEN a2
        ELSE IF p = ListB1 THEN b1 ELSE IF p = ListB2 THEN b2 ELSE notes]

InitList ==
    /\ \/ \E a1, a2 \in CwdLogs \cup {NoFile} :
             fs = ListTree(a1, a2, NoFile, NoFile, NotesFile)
       \/ \E b1, b2 \in PlainDirLogs \cup {NoFile} :
          \E a1 \in {NoFile, LogFile(1, ListLog(0, "/work/app", "1"))} :
             fs = ListTree(a1, NoFile, b1, b2, NoFile)
       \/ \E a1 \in TimedLogs({"/work/app"}) \cup {NoFile} :
          \E a2 \in TimedLogs({Absent}) \cup {NoFile} :
          \E b1 \in TimedLogs({Absent, "/work/app"}) \cup {NoFile} :
             fs = ListTree(a1, a2, b1, NoFile, NoFile)
    /\ projects_exists = TRUE
    /\ file_timestamps = [p \in ListPaths |-> NoTime]
    /\ now = MaxTs + 1
    /\ messages_cache = <<>>
    /\ calls = [c \in Callers |-> IdleCall]
    /\ ret = RetNone
    /\ prev = RetNone
    /\ req = <<>>

NextList == ListSessions \/ ProjectSummary

SpecList == InitList /\ [][NextList]_vars

\* the log file a Session of the listing was built from (stems are distinct)
PathOfSession(session) == CHOOSE p \in Existing(fs) : is_jsonl(p) /\ p.stem = session.session_id

LogsOfDir(d) == {p \in Existing(fs) : is_jsonl(p) /\ p.dir = d}

HasCwd(line) == line.kind = "object" /\ line.cwd \notin {Absent, JNull, JOther, ""}

\* the cwd values recorded in the log files of directory d
CwdsOfDir(d) ==
    {fs[p].lines[i].cwd : <<p, i>> \in
        {<<q, j>> \in LogsOfDir(d) \X (1..(ScanLines + 1)) :
            j <= Len(fs[q].lines) /\ HasCwd(fs[q].lines[j])}}

\* some log file of d has a record with a cwd among its first n lines
DirHasCwdWithin(d, n) ==
    \E p \in LogsOfDir(d) : \E i \in 1..Min(n, Len(fs[p].lines)) : HasCwd(fs[p].lines[i])

\* encoded_path.replace("-", "/") on the directory names of the model
NaiveDecode(d) ==
    IF d = "-home-u-app" THEN "/home/u/app"
    ELSE IF d = "-srv-web" THEN "/srv/web"
    ELSE d

\* the directory name and its hyphen decoding
DirNameForms(d) == {d, NaiveDecode(d)}

\* C8 as stated: in a listing, every session of a directory in which some log
\* file has a record with a cwd carries a cwd-derived project_path.
C8_CwdWheneverRecorded ==
    (ret.op = "list_sessions" /\ ret.res.ok) =>
        \A k \in 1..Len(ret.res.val) :
            LET d == PathOfSession(ret.res.val[k]).dir IN
            DirHasCwdWithin(d, ScanLines + 1) =>
                /\ ret.res.val[k].project_path \in CwdsOfDir(d)
                /\ ret.res.val[k].project_path \notin DirNameForms(d)

\* C8 amended: in a listing, every session of a directory whose name starts
\* with '-' and in which some log file has a record with a cwd among its first
\* ten lines carries a cwd-derived project_path, never the directory name or
\* its hyphen decoding.
C8_CwdWhenEncodedAndEarly ==
    (ret.op = "list_sessions" /\ ret.res.ok) =>
        \A k \in 1..Len(ret.res.val) :
            LET d == PathOfSession(ret.res.val[k]).dir IN
            (starts_with_hyphen(d) /\ DirHasCwdWithin(d, ScanLines)) =>
                /\ ret.res.val[k].project_path \in CwdsOfDir(d)
                /\ ret.res.val[k].project_path \notin DirNameForms(d)

\* a session without a cwd of its own takes the cwd another log of its
\* directory records on its tenth line
C8_Witness ==
    /\ ret.op = "list_sessions" /\ ret.res.ok
    /\ fs[ListA1].exists /\ Len(fs[ListA1].lines) = ScanLines
    /\ fs[ListA2].exists /\ ~DirHasCwdWithin("scratch", 1)
    /\ \A i \in 1..Len(fs[ListA2].lines) : ~HasCwd(fs[ListA2].lines[i])
    /\ \E k \in 1..Len(ret.res.val) :
          /\ ret.res.val[k].session_id = "a2"
          /\ ret.res.val[k].project_path = fs[ListA1].lines[ScanLines].cwd

RECURSIVE SumOver(_, _)
\* the sum of f over the set S of its arguments
SumOver(f, S) ==
    IF S = {} THEN 0 ELSE LET x == CHOOSE x \in S : TRUE IN f[x] + SumOver(f, S \ {x})

MaxOf(S) == CHOOSE x \in S : \A y \in S : y <= x

\* C9: get_project_summary returns one entry per distinct project path of the
\* listed sessions, with session_count the number of sessions of that path,
\* total_messages the sum of their message_count, and last_activity the
\* maximum of their file_modified_time.
C9_OneEntryPerProject ==
    (ret.op = "project_summary" /\ ret.res.ok) =>
        LET sessions == ret.sessions.val
            members(path) == {k \in 1..Len(sessions) : sessions[k].project_path = path}
            paths == {sessions[k].project_path : k \in 1..Len(sessions)}
        IN  /\ Len(ret.res.val) = Cardinality(paths)
            /\ {ret.res.val[i].project_path : i \in 1..Len(ret.res.val)} = paths
            /\ \A i \in 1..Len(ret.res.val) :
                  LET e == ret.res.val[i]  ks == members(e.project_path) IN
                  /\ e.session_count = Cardinality(ks)
                  /\ e.total_messages = SumOver([k \in ks |-> sessions[k].message_count], ks)
                  /\ e.last_activity = MaxOf({sessions[k].file_modified_time : k \in ks})

\* a summary of two projects, one of them with two sessions whose files were
\* modified at different times, the later one listed first
C9_Witness ==
    /\ ret.op = "project_summary" /\ ret.res.ok
    /\ Len(ret.res.val) = 2
    /\ \E i \in 1..2 : \E j, k \in 1..Len(ret.sessions.val) :
          /\ j < k
          /\ ret.res.val[i].session_count = 2
          /\ ret.sessions.val[j].project_path = ret.res.val[i].project_path
          /\ ret.sessions.val[k].project_path = ret.res.val[i].project_path
          /\ ret.sessions.val[j].file_modified_time > ret.sessions.val[k].file_modified_time

IsSortedDesc(xs, key) == \A i, j \in 1..Len(xs) : i < j => xs[i][key] >= xs[j][key]

\* C10: the listing is in descending order of the sessions' first timestamp,
\* and the project summary in descending order of last_activity, whatever the
\* timestamps inside the logs say.
C10_TwoRecencyOrders ==
    /\ (ret.op = "list_sessions" /\ ret.res.ok) => IsSortedDesc(ret.res.val, "timestamp")
    /\ (ret.op = "project_summary" /\ ret.res.ok) =>
          /\ IsSortedDesc(ret.res.val, "last_activity")
          /\ IsSortedDesc(ret.sessions.val, "timestamp")

\* a summary that puts first the project whose log was written later although
\* every timestamp in its log is earlier than the other project's
C10_Witness ==
    /\ ret.op = "project_summary" /\ ret.res.ok
    /\ Len(ret.res.val) = 2
    /\ ret.res.val[1].last_activity > ret.res.val[2].last_activity
    /\ \A j, k \in 1..Len(ret.sessions.val) :
          (/\ ret.sessions.val[j].project_path = ret.res.val[1].project_path
           /\ ret.sessions.val[k].project_path = ret.res.val[2].project_path)
          => ret.sessions.val[j].timestamp < ret.sessions.val[k].timestamp

---------------------------------------------------------------------------
(* The decoder and the Session fold over one log file whose records differ *)
(* in one field at a time (SpecFold).                                      *)

ObjContent == [shape |-> "obj", text |-> <<>>, blocks |-> <<>>]

UserLine(ts, text) ==
    [Obj EXCEPT !.type = "user", !.timestamp = ts, !.message = UserMessage(text)]

\* assistant records with every shape of stop_reason, and a user record
StatusLines ==
    << [Obj EXCEPT !.type = "assistant", !.message = AssistantMessage(Absent)],
       [Obj EXCEPT !.type = "assistant", !.message = AssistantMessage(JNull)],
       [Obj EXCEPT !.type = "assistant", !.message = AssistantMessage(JOther)],
       [Obj EXCEPT !.type = "assistant", !.message = AssistantMessage("end_turn")],
       [Obj EXCEPT !.type = "assistant", !.message = AssistantMessage("tool_use")],
       [Obj EXCEPT !.type = "assistant", !.message = AssistantMessage("max_tokens")],
       [Obj EXCEPT !.type = "assistant", !.message = AssistantMessage("stop_sequence")],
       [Obj EXCEPT !.type = "assistant", !.message = AssistantMessage("refusal")],
       [Obj EXCEPT !.type = "assistant"],
       UserLine("1", <<"h", "i">>) >>

\* records with and without a parseable timestamp, two of them with the same one
TimeLines ==
    << UserLine("1", <<"a">>), UserLine("2", <<"b">>), UserLine("2", <<"c">>),
       UserLine("bad", <<"d">>), UserLine(Absent, <<"e">>), UserLine(JOther, <<"f">>),
       [Obj EXCEPT !.type = "assistant", !.timestamp = "1",
                   !.message = AssistantMessage("end_turn")],
       RawLine("scalar") >>

\* records with every shape of gitBranch
BranchLines ==
    << [UserLine("1", <<"a">>) EXCEPT !.gitBranch = Absent],
       [UserLine("1", <<"a">>) EXCEPT !.gitBranch = JNull],
       [UserLine("1", <<"a">>) EXCEPT !.gitBranch = JOther],
       [UserLine("1", <<"a">>) EXCEPT !.gitBranch = ""],
       [UserLine("1", <<"a">>) EXCEPT !.gitBranch = "main"],
       [UserLine("1", <<"a">>) EXCEPT !.gitBranch = "dev"],
       RawLine("malformed") >>

\* user records with every shape of content
ContentLines ==
    << UserLine("1", <<"h", "i">>),
       UserLine("1", <<SP, "a", NL, "b", SP>>),
       UserLine("1", <<>>),
       [UserLine("1", <<>>) EXCEPT !.message.content = ArrContent(<<TextBlock(<<"o", "k">>)>>)],
       [UserLine("1", <<>>) EXCEPT !.message.content = ArrContent(<<>>)],
       [UserLine("1", <<>>) EXCEPT !.message.content = ObjContent],
       [UserLine("1", <<>>) EXCEPT !.message.content = NoMessage.content],
       [Obj EXCEPT !.type = "user", !.timestamp = "1"] >>

FoldFamilies == <<StatusLines, TimeLines, BranchLines, ContentLines>>

InitFold ==
    /\ \E fam \in 1..Len(FoldFamilies) : \E k \in 0..MaxLines :
       \E pick \in [1..k -> 1..Len(FoldFamilies[fam])] :
          fs = [p \in {DecodePath} |->
                   LogFile(1, Numbered([i \in 1..k |-> FoldFamilies[fam][pick[i]]]))]
    /\ projects_exists = TRUE
    /\ file_timestamps = [p \in {DecodePath} |-> NoTime]
    /\ now = MaxTs + 1
    /\ messages_cache = <<>>
    /\ calls = [c \in Callers |-> IdleCall]
    /\ ret = RetNone
    /\ prev = RetNone
    /\ req = <<>>

NextFold ==
    \/ SmBegin(1, "s1")
    \/ SmFind(1)
    \/ SmStore(1)
    \/ ListSessions

SpecFold == InitFold /\ [][NextFold]_vars

\* the message a get_session_messages result holds for line i of the file
MessageOfLine(i) ==
    ret.res.val[Cardinality({j \in TypedIndices(DecodedLines) : j <= i})]

\* the stop_reason of the nested message of a record, Absent when there is none
StopReasonOf(line) == IF line.message.present THEN line.message.stop_reason ELSE Absent

\* the status the stop_reason table gives
StatusByTable(stop_reason) ==
    IF stop_reason \in {Absent, JNull} THEN "Processing"
    ELSE IF stop_reason \in {"end_turn", "tool_use"} THEN "Completed"
    ELSE IF stop_reason \in {"max_tokens", "stop_sequence"} THEN "Stopped"
    ELSE "Error"

\* C11: in a get_session_messages result, every Assistant message has the
\* status the table gives for its record's stop_reason (end_turn, tool_use:
\* Completed; max_tokens, stop_sequence: Stopped; any other non-null value:
\* Error; null or missing: Processing), and every User message is Completed.
C11_StatusFromStopReason ==
    (ret.op = "session_messages" /\ ret.res.ok) =>
        \A i \in TypedIndices(DecodedLines) :
            /\ DecodedLines[i].type = "assistant" =>
                  MessageOfLine(i).processing_status = StatusByTable(StopReasonOf(DecodedLines[i]))
            /\ DecodedLines[i].type = "user" =>
                  MessageOfLine(i).processing_status = "Completed"

\* the timestamp a record carries, NoTime when it has none that parses
TimestampOf(line) == IF line.kind = "object" THEN ParseTimestamp(line.timestamp) ELSE NoTime

TimedIndices(lines) == {i \in 1..Len(lines) : TimestampOf(lines[i]) # NoTime}

MinOf(S) == CHOOSE x \in S : \A y \in S : x <= y

\* C12: the timestamp of a listed Session is the timestamp of the first record,
\* in file order, that has a parseable one (not the smallest of the file), and
\* the current time when no record has one.
C12_FirstParseableTimestamp ==
    (ret.op = "list_sessions" /\ ret.res.ok) =>
        \A k \in 1..Len(ret.res.val) :
            ret.res.val[k].timestamp =
                IF TimedIndices(DecodedLines) = {} THEN now
                ELSE TimestampOf(DecodedLines[MinOf(TimedIndices(DecodedLines))])

\* a Session whose timestamp is that of its first timed record although a
\* later record carries a smaller one
C12_Witness ==
    /\ ret.op = "list_sessions" /\ ret.res.ok /\ Len(ret.res.val) = 1
    /\ \E i, j \in TimedIndices(DecodedLines) :
          /\ i = MinOf(TimedIndices(DecodedLines)) /\ i < j
          /\ TimestampOf(DecodedLines[j]) < TimestampOf(DecodedLines[i])
          /\ ret.res.val[1].timestamp = TimestampOf(DecodedLines[i])

\* the records that carry the largest timestamp of the file
LatestIndices(lines) ==
    {i \in TimedIndices(lines) :
        \A j \in TimedIndices(lines) : TimestampOf(lines[j]) <= TimestampOf(lines[i])}

\* C13: the latest_content_preview of a listed Session is the preview of the
\* record with the largest parseable timestamp of the file, the last of them
\* in file order when several records carry that timestamp.
C13_PreviewOfLatestLastWins ==
    (ret.op = "list_sessions" /\ ret.res.ok /\ TimedIndices(DecodedLines) # {}) =>
        \A k \in 1..Len(ret.res.val) :
            ret.res.val[k].latest_content_preview =
                extract_content_preview(DecodedLines[MaxOf(LatestIndices(DecodedLines))])

\* the records whose gitBranch is a non-empty string
BranchIndices(lines) ==
    {i \in 1..Len(lines) :
        lines[i].kind = "object" /\ lines[i].gitBranch \notin {Absent, JNull, JOther, ""}}

\* C14: the git_branch of a listed Session is the gitBranch of the first
\* record, in file order, whose gitBranch is a non-empty string, whatever the
\* later records carry, and absent when no record has one.
C14_FirstNonEmptyBranch ==
    (ret.op = "list_sessions" /\ ret.res.ok) =>
        \A k \in 1..Len(ret.res.val) :
            ret.res.val[k].git_branch =
                IF BranchIndices(DecodedLines) = {} THEN None
                ELSE DecodedLines[MinOf(BranchIndices(DecodedLines))].gitBranch

\* a Session that keeps the branch of its second record: the first has an
\* empty gitBranch and the third another branch
C14_Witness ==
    /\ ret.op = "list_sessions" /\ ret.res.ok /\ Len(ret.res.val) = 1
    /\ Len(DecodedLines) >= 3
    /\ DecodedLines[1].kind = "object" /\ DecodedLines[1].gitBranch = ""
    /\ BranchIndices(DecodedLines) = {2, 3}
    /\ DecodedLines[2].gitBranch # DecodedLines[3].gitBranch
    /\ ret.res.val[1].git_branch = DecodedLines[2].gitBranch

\* the JSON content field of a record's nested message
ContentOf(line) == IF line.message.present THEN line.message.content ELSE NoMessage.content

\* C15: in a get_session_messages result, every user record is decoded to a
\* User message whose content is the content field unchanged when that field
\* is a string, and the empty string when it is an array, an object or missing.
C15_UserContentStringOrEmpty ==
    (ret.op = "session_messages" /\ ret.res.ok) =>
        \A i \in TypedIndices(DecodedLines) :
            DecodedLines[i].type = "user" =>
                /\ MessageOfLine(i).variant = "User"
                /\ MessageOfLine(i).content.content =
                      IF ContentOf(DecodedLines[i]).shape = "str"
                      THEN ContentOf(DecodedLines[i]).text ELSE <<>>

\* a result with a User message of empty content for a record whose content
\* is an array holding a text block, next to one whose string content, with
\* its newline and its outer spaces, came through unchanged
C15_Witness ==
    /\ ret.op = "session_messages" /\ ret.res.ok
    /\ \E i, j \in TypedIndices(DecodedLines) :
          /\ ContentOf(DecodedLines[i]).shape = "arr"
          /\ ContentOf(DecodedLines[i]).blocks # <<>>
          /\ MessageOfLine(i).variant = "User"
          /\ MessageOfLine(i).content.content = <<>>
          /\ ContentOf(DecodedLines[j]).shape = "str"
          /\ MessageOfLine(j).content.content = <<SP, "a", NL, "b", SP>>

---------------------------------------------------------------------------
(* The preview truncator on its own (SpecTruncate): every content of up to *)
(* MaxText characters and some around the cap, under small and large       *)
(* budgets.                                                                *)

TextAlphabet == <<"a", SP, NL, CR, CTL>>

Rep(n) == [i \in 1..n |-> "a"]

\* contents around the cap, without a space, with one inside and one outside the cap
LongTexts ==
    { Rep(AdjustedCap), Rep(AdjustedCap + 1), Rep(AdjustedCap + 10),
      Rep(AdjustedCap - 20) \o <<SP>> \o Rep(AdjustedCap - 20),
      Rep(AdjustedCap + 5) \o <<SP>> \o Rep(5) }

Budgets == (0..MaxText) \cup {AdjustedCap, WideLimit, WideLimit + 1, PreviewBudget}

\* truncate_content(content, max_chars)
Truncate ==
    /\ ret' = [op |-> "truncate", content |-> req.content, max_chars |-> req.max_chars,
               out |-> truncate_content(req.content, req.max_chars)]
    /\ UNCHANGED <<fs, projects_exists, now, messages_cache, file_timestamps, calls, prev, req>>

InitTruncate ==
    /\ \E b \in Budgets :
          \/ \E k \in 0..MaxText : \E pick \in [1..k -> 1..Len(TextAlphabet)] :
                req = [content |-> [i \in 1..k |-> TextAlphabet[pick[i]]], max_chars |-> b]
          \/ \E text \in LongTexts : req = [content |-> text, max_chars |-> b]
    /\ projects_exists = TRUE
    /\ fs = [p \in {DecodePath} |-> NoFile]
    /\ file_timestamps = [p \in {DecodePath} |-> NoTime]
    /\ now = 1
    /\ messages_cache = <<>>
    /\ calls = [c \in Callers |-> IdleCall]
    /\ ret = RetNone
    /\ prev = RetNone

NextTruncate == Truncate

SpecTruncate == InitTruncate /\ [][NextTruncate]_vars

IsPrefix(s, t) == Len(s) <= Len(t) /\ SubSeq(t, 1, Len(s)) = s

RECURSIVE WithoutEllipsis(_)
\* a text without the dots it ends with (no content drawn holds a dot)
WithoutEllipsis(s) ==
    IF s # <<>> /\ s[Len(s)] = "." THEN WithoutEllipsis(SubSeq(s, 1, Len(s) - 1)) ELSE s

\* C16: for any content and any budget b, the output of truncate_content has
\* at most b + 1 characters, and without its ellipsis it is a prefix of the
\* cleaned content, ending at the last space of the first b characters when
\* it was cut and these hold a space.
C16_TruncationWithinBudget ==
    ret.op = "truncate" =>
        LET cleaned == Trim(FilterChars(ret.content))
            window  == SubSeq(cleaned, 1, Min(ret.max_chars, Len(cleaned)))
            body    == WithoutEllipsis(ret.out)
        IN  /\ Len(ret.out) <= ret.max_chars + 1
            /\ IsPrefix(body, cleaned)
            /\ (ret.out # cleaned /\ RFindSpace(window) >= 0) => Len(body) = RFindSpace(window)

---------------------------------------------------------------------------
(* Two get_session_messages calls that decode the same, unchanging log     *)
(* file at different times (SpecRedecode).                                 *)

RedecodeLines ==
    << UserLine("1", <<"h", "i">>), UserLine(Absent, <<"h", "i">>), UserLine("bad", <<"h", "i">>),
       [Obj EXCEPT !.type = "assistant", !.message = AssistantMessage("end_turn")],
       [Obj EXCEPT !.type = "summary", !.summary = <<"s">>],
       RawLine("malformed") >>

InitRedecode ==
    /\ \E k \in 0..Min(2, MaxLines) : \E pick \in [1..k -> 1..Len(RedecodeLines)] :
          fs = [p \in {DecodePath} |->
                   LogFile(1, Numbered([i \in 1..k |-> RedecodeLines[pick[i]]]))]
    /\ projects_exists = TRUE
    /\ file_timestamps = [p \in {DecodePath} |-> NoTime]
    /\ InitCommon

NextRedecode ==
    \/ Tick
    \/ \E c \in Callers : SmBegin(c, "s1")
    \/ \E c \in Callers : SmFind(c)
    \/ \E c \in Callers : SmStore(c)

SpecRedecode == InitRedecode /\ [][NextRedecode]_vars

\* C17: two decodes of the same log lines, by two get_session_messages runs,
\* give equal messages, also for lines whose timestamp is missing or does not
\* parse.
C17_DecodingTwiceIsEqual ==
    /\ \A c, d \in Callers :
          (calls[c].pc = "store" /\ calls[d].pc = "store" /\ calls[c].id = calls[d].id)
          => calls[c].messages = calls[d].messages
    /\ \A c \in Callers :
          (/\ ret.op = "session_messages" /\ ret.res.ok /\ ~ret.hit
           /\ calls[c].pc = "store" /\ calls[c].id = ret.id)
          => calls[c].messages = ret.res.val

---------------------------------------------------------------------------
(* Further claims about the listing (SpecList) *)

\* C18: in a listing, the sessions whose log files lie in the same project
\* directory all have the same project_path.
C18_OnePathPerDirectory ==
    (ret.op = "list_sessions" /\ ret.res.ok) =>
        \A j, k \in 1..Len(ret.res.val) :
            PathOfSession(ret.res.val[j]).dir = PathOfSession(ret.res.val[k]).dir
            => ret.res.val[j].project_path = ret.res.val[k].project_path

\* C19: in a listing, every session of a project directory none of whose log
\* files has a record with a cwd has the hyphen decoding of the directory
\* name as its project_path.
C19_NaiveDecodeWithoutCwd ==
    (ret.op = "list_sessions" /\ ret.res.ok) =>
        \A k \in 1..Len(ret.res.val) :
            LET d == PathOfSession(ret.res.val[k]).dir IN
            CwdsOfDir(d) = {} => ret.res.val[k].project_path = NaiveDecode(d)

---------------------------------------------------------------------------
(* The message cache of one session while its log file is rewritten with   *)
(* other content or removed, and no invalidation arrives (SpecRewrite).    *)

OtherLog == Numbered(<< UserLine("1", <<"h", "i">>), UserLine("2", <<"y", "o">>) >>)

RewriteContents == {GoodLog, OtherLog}

InitRewrite ==
    /\ fs = [p \in {DecodePath} |-> LogFile(1, GoodLog)]
    /\ projects_exists = TRUE
    /\ file_timestamps = [p \in {DecodePath} |-> NoTime]
    /\ InitCommon

NextRewrite ==
    \/ \E lines \in RewriteContents : WriteLog(DecodePath, lines)
    \/ DeleteLog(DecodePath)
    \/ \E c \in Callers : SmBegin(c, "s1")
    \/ \E c \in Callers : SmFind(c)
    \/ \E c \in Callers : SmStore(c)

SpecRewrite == InitRewrite /\ [][NextRewrite]_vars

\* C20: no step removes or replaces an entry of messages_cache, and a
\* get_session_messages call that starts when its id is cached returns the
\* cached list at once, without reading the log file, whatever the file has
\* become.
C20_CachedEntryStays ==
    [][/\ \A id \in DOMAIN messages_cache :
             id \in DOMAIN messages_cache' /\ messages_cache'[id] = messages_cache[id]
       /\ (/\ "s1" \in DOMAIN messages_cache
           /\ calls' = calls /\ ret' # ret /\ ret'.op = "session_messages")
          => (ret'.hit /\ ret'.res = Ok(messages_cache["s1"]))]_vars

---------------------------------------------------------------------------
(* The file watcher (commands.rs, start_file_watcher): one step per event, *)
(* taken after the debounce sleep.  The two invalidation methods it calls  *)
(* are modelled from their description: the removal of one key of          *)
(* messages_cache, and the clearing of messages_cache.                     *)

invalidate_session_cache(cache, session_id) ==
    [k \in DOMAIN cache \ {session_id} |-> cache[k]]

invalidate_caches(cache) == [k \in {} |-> <<>>]

\* the event handler that clears the whole cache on every event
FileChanged_clears_all(paths) ==
    /\ messages_cache' = invalidate_caches(messages_cache)
    /\ ret' = [op |-> "file_changed", paths |-> paths, before |-> messages_cache]
    /\ prev' = [op |-> ret.op, ok |-> FALSE]
    /\ UNCHANGED <<fs, projects_exists, now, file_timestamps, calls, req>>

\* the body of `while let Ok(event) = rx.recv()`; paths is event.paths
FileChanged(paths) ==
    /\ messages_cache' =
          IF paths # <<>>
          THEN (IF Head(paths).ext = "jsonl"
                THEN invalidate_session_cache(messages_cache, Head(paths).stem)
                ELSE invalidate_caches(messages_cache))
          ELSE invalidate_caches(messages_cache)
    /\ ret' = [op |-> "file_changed", paths |-> paths, before |-> messages_cache]
    /\ prev' = [op |-> ret.op, ok |-> FALSE]
    /\ UNCHANGED <<fs, projects_exists, now, file_timestamps, calls, req>>

WatchS1 == [dir |-> "-home-u-app", stem |-> "s1", ext |-> "jsonl"]
WatchS2 == [dir |-> "scratch",     stem |-> "s2", ext |-> "jsonl"]

WatchLogs == {WatchS1, WatchS2}

\* events without a path, for a log file, for another file, and with two paths
WatchEvents ==
    {<<>>, <<WatchS1>>, <<WatchS2>>, <<NotesPath>>, <<NotesPath, WatchS1>>, <<WatchS1, NotesPath>>}

InitWatch ==
    /\ fs = [p \in WatchLogs \cup {NotesPath} |->
                IF p = NotesPath THEN LogFile(1, <<RawLine("malformed")>>) ELSE LogFile(1, GoodLog)]
    /\ projects_exists = TRUE
    /\ file_timestamps = [p \in WatchLogs \cup {NotesPath} |-> NoTime]
    /\ InitCommon

NextWatch ==
    \/ \E p \in WatchLogs, lines \in RewriteContents : WriteLog(p, lines)
    \/ \E c \in Callers, session_id \in {"s1", "s2"} : SmBegin(c, session_id)
    \/ \E c \in Callers : SmFind(c)
    \/ \E c \in Callers : SmStore(c)
    \/ \E paths \in WatchEvents : FileChanged(paths)

SpecWatch == InitWatch /\ [][NextWatch]_vars

\* what an event has to leave of the cache it found
CacheAfterEvent(before, paths) ==
    IF paths # <<>> /\ Head(paths).ext = "jsonl"
    THEN [k \in DOMAIN before \ {Head(paths).stem} |-> before[k]]
    ELSE [k \in {} |-> <<>>]

\* C21: a watcher step for an event whose first path is a .jsonl file removes
\* the entry keyed by the file stem and leaves every other entry as it was,
\* a watcher step for any other event empties messages_cache, and no other
\* step removes an entry.
C21_WatcherRemovesOnlyTheStem ==
    [][/\ (ret'.op = "file_changed" /\ ret' # ret)
          => messages_cache' = CacheAfterEvent(messages_cache, ret'.paths)
       /\ (DOMAIN messages_cache \ DOMAIN messages_cache' # {})
          => ret'.op = "file_changed"]_vars

\* an event for the log of s1 took s1 out of a cache that held s1 and s2
C21_Witness ==
    /\ ret.op = "file_changed"
    /\ ret.paths # <<>> /\ Head(ret.paths) = WatchS1
    /\ DOMAIN ret.before = {"s1", "s2"}
    /\ DOMAIN messages_cache = {"s2"}
    /\ messages_cache["s2"] = ret.before["s2"]

\* C22: concurrent session_messages calls for one uncached id behave as one
\* exclusive step, so the log file is decoded at most once: no two calls for
\* the same id are ever both past their own decode and before their store.
C22_DecodedAtMostOnce ==
    \A c, d \in Callers :
        (c # d /\ calls[c].pc = "store" /\ calls[d].pc = "store")
            => calls[c].id # calls[d].id

---------------------------------------------------------------------------
(* Polls over logs that are rewritten, removed, and replaced by copies     *)
(* with an earlier modification time.                                      *)

NextRestore ==
    \/ Tick
    \/ \E p \in PollLogs, lines \in PollContents : WriteLog(p, lines)
    \/ \E p \in PollLogs, m \in 1..MaxClock : RestoreLog(p, GoodLog, m)
    \/ \E p \in PollLogs : DeleteLog(p)
    \/ ChangedSessions

SpecRestore == InitPoll /\ [][NextRestore]_vars

\* C23: in every step, a changed_sessions call that succeeds or fails
\* included, the time stored in file_timestamps for a path does not
\* decrease, and a path that has an entry keeps one.
C23_TimestampsNeverRollBack ==
    [][\A p \in DOMAIN file_timestamps :
          file_timestamps[p] # NoTime
             => /\ file_timestamps'[p] # NoTime
                /\ file_timestamps'[p] >= file_timestamps[p]]_vars

\* a poll met a log whose modification time is earlier than the stored one,
\* or a log that is gone, and kept the stored time
C23_Witness ==
    /\ ret.op = "changed_sessions"
    /\ \E p \in PollLogs :
          /\ ret.before[p] # NoTime
          /\ fs[p].exists /\ fs[p].mtime < ret.before[p]
          /\ file_timestamps[p] = ret.before[p]
    /\ \E p \in PollLogs : ~fs[p].exists /\ file_timestamps[p] # NoTime

---------------------------------------------------------------------------
\* the cleaned and trimmed form of the content of the last truncate_content call
CleanedContent == Trim(FilterChars(ret.content))

EndsWithEllipsis(s) == Len(s) >= 3 /\ SubSeq(s, Len(s) - 2, Len(s)) = <<".", ".", ".">>

\* C24 as stated: under the budget of 200 characters of the previews, a
\* content whose cleaned and trimmed form has at most 200 characters is
\* returned as that form, and only longer content is cut.
C24_UnchangedUpToBudget ==
    (ret.op = "truncate" /\ ret.max_chars = PreviewBudget)
        => /\ Len(CleanedContent) <= PreviewBudget => ret.out = CleanedContent
           /\ Len(CleanedContent) > PreviewBudget => EndsWithEllipsis(ret.out)

\* C24: under the budget of 200 characters of the previews, a content whose
\* cleaned and trimmed form has at most 50 characters is returned as that
\* form, unchanged and without an ellipsis, and longer content comes back as
\* at most 50 of its first characters followed by an ellipsis.
C24_UnchangedUpToCap ==
    (ret.op = "truncate" /\ ret.max_chars = PreviewBudget)
        => /\ Len(CleanedContent) <= AdjustedCap => ret.out = CleanedContent
           /\ Len(CleanedContent) > AdjustedCap
                 => \E k \in 0..AdjustedCap :
                       ret.out = SubSeq(CleanedContent, 1, k) \o <<".", ".", ".">>

\* a content of exactly 50 characters came back unchanged under the budget of 200
C24_Witness ==
    /\ ret.op = "truncate" /\ ret.max_chars = PreviewBudget
    /\ Len(CleanedContent) = AdjustedCap
    /\ ret.out = CleanedContent

---------------------------------------------------------------------------
(* Listings over logs that can be unreadable: by permission, or by a line  *)
(* that is not valid UTF-8, within or past the lines the cwd scan reads.   *)

HardPaths == {ListA1, ListA2, ListB1, ListNotes}

\* a log with a cwd in its first line and a line that is not valid UTF-8 after line ScanLines
LateBrokenLog ==
    Numbered(<< [Obj EXCEPT !.type = "user", !.timestamp = "1", !.cwd = "/work/app",
                            !.message = UserMessage(<<"h", "i">>)] >>
             \o [i \in 1..ScanLines |-> RawLine("scalar")]
             \o << RawLine("invalid_utf8") >>)

HardContents == {GoodLog, BrokenLog, LateBrokenLog}

InitHard ==
    /\ fs = [p \in HardPaths |-> IF p = ListNotes THEN NotesFile ELSE LogFile(1, GoodLog)]
    /\ projects_exists = TRUE
    /\ file_timestamps = [p \in HardPaths |-> NoTime]
    /\ InitCommon

NextHard ==
    \/ \E p \in HardPaths \ {ListNotes}, lines \in HardContents : WriteLog(p, lines)
    \/ \E p \in HardPaths \ {ListNotes} : DeleteLog(p)
    \/ \E p \in HardPaths, r \in BOOLEAN : Chmod(p, r)
    \/ ListSessions

SpecHard == InitHard /\ [][NextHard]_vars

\* File::open or a read of a line fails on the file
CannotBeRead(file) ==
    \/ ~file.readable
    \/ \E i \in 1..Len(file.lines) : file.lines[i].kind = "invalid_utf8"

LogsOf(f) == {p \in Existing(f) : is_jsonl(p)}

\* C25: a list_sessions call that succeeds returns one Session for every
\* .jsonl file of every project directory, and none of these files is one
\* that cannot be opened or read; otherwise the call fails as a whole.
C25_AllOrNothing ==
    (ret.op = "list_sessions" /\ ret.res.ok)
        => /\ Len(ret.res.val) = Cardinality(LogsOf(fs))
           /\ \A p \in LogsOf(fs) :
                 /\ \E i \in 1..Len(ret.res.val) : ret.res.val[i].session_id = p.stem
                 /\ ~CannotBeRead(fs[p])

\* a listing failed over one unreadable log in a plain directory, next to logs that can be read
C25_Witness ==
    /\ ret.op = "list_sessions" /\ ~ret.res.ok
    /\ CannotBeRead(fs[ListB1]) /\ fs[ListB1].exists
    /\ fs[ListA1].exists /\ ~CannotBeRead(fs[ListA1])
    /\ fs[ListA2].exists /\ ~CannotBeRead(fs[ListA2])

---------------------------------------------------------------------------
(* One modification of the log of s1, from GoodLog to OtherLog, with calls *)
(* in flight and watcher events.                                           *)

NextStale ==
    \/ fs[WatchS1].lines = GoodLog /\ WriteLog(WatchS1, OtherLog)
    \/ \E c \in Callers, session_id \in {"s1", "s2"} : SmBegin(c, session_id)
    \/ \E c \in Callers : SmFind(c)
    \/ \E c \in Callers : SmStore(c)
    \/ \E paths \in {<<>>, <<WatchS1>>, <<NotesPath>>} : FileChanged(paths)

SpecStale == InitWatch /\ [][NextStale]_vars

\* the log of s1 has been modified, and the last watcher event, each of
\* which invalidates s1 here, came when the modification was the last thing done
InvalidatedAfterChange ==
    /\ fs[WatchS1].lines = OtherLog
    /\ prev.op = "write"

\* C26: once the log of s1 is modified and the watcher's invalidation of s1
\* has completed, a session_messages("s1") call that starts afterwards
\* returns the decode of the modified log, whatever calls were in flight
\* when the log changed.  (A call that finds s1 cached begins and returns in
\* one step, so it started after the invalidation.)
C26_FreshAfterInvalidation ==
    (/\ InvalidatedAfterChange
     /\ ret.op = "session_messages" /\ ret.id = "s1" /\ ret.hit)
        => ret.res = parse_messages_file(fs[WatchS1], "s1", now)

---------------------------------------------------------------------------
\* C27: a changed_sessions call that fails part-way leaves file_timestamps
\* as it was before the call, so that no file that was new or modified is
\* taken as seen.
C27_FailedPollKeepsTimestamps ==
    (ret.op = "changed_sessions" /\ ~ret.res.ok) => file_timestamps = ret.before

---------------------------------------------------------------------------
(* A poll followed by a listing of the same, unchanged tree: an encoded    *)
(* directory with two logs and a plain directory with one, each log with   *)
(* or without a cwd of its own.                                            *)

BothPaths == {ListA1, ListA2, ListB1}

BothContents == {ListLog(0, Absent, "1"), ListLog(0, "/work/app", "2")}

InitBoth ==
    /\ fs = [p \in BothPaths |-> NoFile]
    /\ projects_exists = TRUE
    /\ file_timestamps = [p \in BothPaths |-> NoTime]
    /\ InitCommon

NextBoth ==
    \/ \E p \in BothPaths, lines \in BothContents : WriteLog(p, lines)
    \/ ChangedSessions
    \/ ListSessions

SpecBoth == InitBoth /\ [][NextBoth]_vars

\* C28: when a successful list_sessions call follows a successful
\* changed_sessions call with no change of the tree in between, every
\* Session the poll returned is a Session of the listing, project_path
\* included.
C28_PollSessionIsListedSession ==
    [][(/\ ret.op = "changed_sessions" /\ ret.res.ok
        /\ ret'.op = "list_sessions" /\ ret'.res.ok)
          => \A i \in 1..Len(ret.res.val) :
                \E j \in 1..Len(ret'.res.val) : ret'.res.val[j] = ret.res.val[i]]_vars

---------------------------------------------------------------------------
\* C29: when a successful list_sessions call follows a successful uncached
\* session_messages call over the same log file, the message_count of the
\* file's Session is the number of messages the session_messages call
\* returned.
C29_CountIsListedMessages ==
    [][(/\ ret.op = "session_messages" /\ ~ret.hit /\ ret.res.ok
        /\ ret'.op = "list_sessions" /\ ret'.res.ok)
          => \A j \in 1..Len(ret'.res.val) :
                ret'.res.val[j].session_id = ret.id
                   => ret'.res.val[j].message_count = Len(ret.res.val)]_vars

---------------------------------------------------------------------------
RECURSIVE Resolved(_, _)
\* the components of a path once each ".." has taken away the component
\* before it (and nothing where there is none)
Resolved(path, acc) ==
    IF path = <<>> THEN acc
    ELSE IF Head(path) = ".."
    THEN Resolved(Tail(path), IF acc = <<>> THEN <<>> ELSE SubSeq(acc, 1, Len(acc) - 1))
    ELSE Resolved(Tail(path), Append(acc, Head(path)))

\* C30: a path that read_claude_file or write_claude_file accepts designates,
\* once its ".." components are resolved, a location under a directory named
\* .claude; and a write_claude_file that rejects its path creates no
\* directory and writes no file.
C30_ResolvedPathStaysInside ==
    (ret.op \in {"read_file", "write_file"}) =>
        /\ ret.out.effects # {} => HasClaudeAncestor(Resolved(ret.path, <<>>))
        /\ ~ret.out.res.ok => ret.out.effects = {}

=============================================================================
